---- MODULE Spec2Model ----
(***************************************************************************)
(* The go-storage fio engine: the adapter of src/go-storage-fio-engine.c   *)
(* (go_storage_init, _cleanup, _getevents, _event, _open_file,             *)
(* _close_file, _queue) driving the reactor behind the storagewrapper      *)
(* boundary (MrdInit, MrdCleanup, MrdAwaitCompletions, MrdGetEvent,        *)
(* MrdOpen, MrdClose, MrdQueue).  The adapter is translated from the C     *)
(* source; the Mrd* operations belong to the storagewrapper package and    *)
(* follow sections 3, 4 and 6 of the design.  One host thread (one         *)
(* thread_data, one fio_file) calls the adapter; the backend completes     *)
(* requests on its own.                                                    *)
(***************************************************************************)
EXTENDS Integers, Sequences, FiniteSets, TLC

\* ------------------------------------------------------------ bounds
MaxDepth == 2
MaxSubmits == 3
MaxFairSubmits == 2
MaxTokens == 3

\* ------------------------------------------------- program constants
DDIR_READ == 0
EINVAL == 22
FIO_Q_COMPLETED == "FIO_Q_COMPLETED"
FIO_Q_QUEUED == "FIO_Q_QUEUED"

\* Error codes of the core's taxonomy (spec.md section 7); all non-zero.
E_QUEUE_FULL == 11
E_INVALID_HANDLE == 9
E_BACKEND_IO == 5
E_EMPTY_QUEUE == 61

Directions == {DDIR_READ, DDIR_READ + 1}
Outcomes == {0, E_BACKEND_IO}
IOUs == 1..(MaxDepth + 1)
Tokens == 1..MaxTokens
PENDING == -1

VARIABLES
  pc,           \* position of the host thread
  iodepth,      \* td->o.iodepth
  number_ios,   \* number of submissions the host's job makes
  io_ops_data,  \* td->io_ops_data (0 is NULL)
  engine_data,  \* f->engine_data (0 is NULL)
  iou_error,    \* io_u->error of every host record
  iou_busy,     \* host records the host holds as queued and not yet reaped
  wait_min,     \* arguments of the getevents call the thread is blocked in
  wait_max,
  handles,      \* Handle Table: token -> "unused" | "reactor" | "session" | "revoked"
  capacity,     \* Reactor: configured capacity
  inflight,     \* Reactor: in-flight queue, submission order
  sink,         \* Reactor: ids of in-flight requests already terminal, in the order marked
  completion,   \* Reactor: Completion Queue
  subs,         \* history: one record per go_storage_queue call
  evts,         \* history: one record per successful go_storage_event call
  waited,       \* history: sum of the values returned by go_storage_getevents
  counted,      \* history: ids moved to the Completion Queue by a wait
  termOrder,    \* history: ids in the order the backend marked them terminal
  termErr,      \* history: the outcome the backend posted, in the same order
  init_res,     \* history: what go_storage_init saw and returned
  file_res      \* history: the latest open_file or close_file call and its result

vars == <<pc, iodepth, number_ios, io_ops_data, engine_data, iou_error, iou_busy, wait_min,
          wait_max, handles, capacity, inflight, sink, completion, subs, evts,
          waited, counted, termOrder, termErr, init_res, file_res>>

hostVars == <<iodepth, number_ios, io_ops_data, engine_data, iou_error, iou_busy>>
coreVars == <<handles, capacity, inflight, sink, completion>>
histVars == <<subs, evts, waited, counted, termOrder, termErr, init_res, file_res>>

\* ------------------------------------------------------------ helpers
Min(a, b) == IF a <= b THEN a ELSE b

Ids(q) == {q[i].id : i \in 1..Len(q)}

RECURSIVE Without(_, _)
Without(q, ids) ==
  IF q = <<>> THEN <<>>
  ELSE IF Head(q).id \in ids THEN Without(Tail(q), ids)
       ELSE <<Head(q)>> \o Without(Tail(q), ids)

Entry(q, id) == CHOOSE e \in {q[i] : i \in 1..Len(q)} : e.id = id

Offset(iou) == (iou - 1) * 4096

\* ------------------------------------------------------- Handle Table
HasUnused(h) == \E t \in Tokens : h[t] = "unused"

\* (variant: the lowest token is issued whether or not it is bound)
FreshToken_Bound(h) == CHOOSE t \in Tokens : \A u \in Tokens : t <= u

FreshToken(h) == CHOOSE t \in Tokens : h[t] = "unused" /\ \A u \in Tokens : u < t => h[u] # "unused"

Register(h, kind) ==
  LET t == FreshToken(h) IN [token |-> t, handles |-> [h EXCEPT ![t] = kind]]

Resolve(h, t, kind) == t \in Tokens /\ h[t] = kind

Revoke(h, t) == IF t \in Tokens /\ h[t] \in {"reactor", "session"} THEN [h EXCEPT ![t] = "revoked"] ELSE h

\* ------------------------------------------------------------ Reactor
\* init(capacity) -> reactor_token or 0: zero capacity or allocation failure
\* (also an exhausted Handle Table) yields 0 and registers nothing.
MrdInit(h, cap, allocOk) ==
  IF cap = 0 \/ ~allocOk \/ ~HasUnused(h)
  THEN [token |-> 0, handles |-> h]
  ELSE Register(h, "reactor")

\* open(reactor_token, path) -> session_token or 0: a backend failure returns
\* 0 without registering a token.
MrdOpen(h, completions, pathOk) ==
  IF ~Resolve(h, completions, "reactor") \/ ~pathOk \/ ~HasUnused(h)
  THEN [token |-> 0, handles |-> h]
  ELSE Register(h, "session")

\* close(session_token): releases the backend resources, then revokes the
\* token; the status says whether the release succeeded.
MrdClose(h, mrd, releaseOk) ==
  [status |-> IF ~Resolve(h, mrd, "session") THEN E_INVALID_HANDLE
              ELSE IF releaseOk THEN 0 ELSE E_BACKEND_IO,
   handles |-> Revoke(h, mrd)]

\* submit: admits the request to the in-flight queue and returns 0, or returns
\* a non-zero rejection code; a reactor holding `capacity` requests (in-flight
\* plus completed-but-undrained, section 3) signals backpressure with the
\* explicit full-queue error, submit being non-blocking (section 5).
MrdQueue(completions, mrd, corr, offset) ==
  IF ~Resolve(handles, completions, "reactor") \/ ~Resolve(handles, mrd, "session")
  THEN [status |-> E_INVALID_HANDLE, inflight |-> inflight]
  ELSE IF Len(inflight) + Len(completion) >= capacity
  THEN [status |-> E_QUEUE_FULL, inflight |-> inflight]
  ELSE [status |-> 0,
        inflight |-> Append(inflight, [id |-> Len(subs) + 1, iou |-> corr, mrd |-> mrd,
                                       offset |-> offset, outcome |-> PENDING])]

\* (variant: the terminal requests are taken in submission order)
MrdAwaitCompletions_SubmissionOrder(min, max) ==
  LET n == Min(max, Len(sink))
      term == Without(inflight, {inflight[i].id : i \in {j \in 1..Len(inflight) : inflight[j].outcome = PENDING}})
      ids == {term[i].id : i \in 1..n}
  IN [count |-> n,
      ids |-> ids,
      inflight |-> Without(inflight, ids),
      sink |-> SelectSeq(sink, LAMBDA x : x \notin ids),
      completion |-> completion \o [i \in 1..n |->
                       [id |-> term[i].id, iou |-> term[i].iou, err |-> term[i].outcome]]]

\* (variant: the requests handed to the Completion Queue are not taken off the
\* sink and the in-flight queue)
MrdAwaitCompletions_NoDequeue(min, max) ==
  LET n == Min(max, Len(sink))
      moved == SubSeq(sink, 1, n)
      ids == {moved[i] : i \in 1..n}
  IN [count |-> n,
      ids |-> ids,
      inflight |-> inflight,
      sink |-> sink,
      completion |-> completion \o [i \in 1..n |->
                       [id |-> moved[i], iou |-> Entry(inflight, moved[i]).iou,
                        err |-> Entry(inflight, moved[i]).outcome]]]

\* wait(min, max): returns once at least `min` in-flight requests are terminal.
AwaitReady(min) == Len(sink) >= min

\* ... and then moves up to `max` of them, in the order they were marked
\* terminal, from the in-flight queue to the Completion Queue; the count moved
\* is the count returned.
MrdAwaitCompletions(min, max) ==
  LET n == Min(max, Len(sink))
      moved == SubSeq(sink, 1, n)
      ids == {moved[i] : i \in 1..n}
  IN [count |-> n,
      ids |-> ids,
      inflight |-> Without(inflight, ids),
      sink |-> SubSeq(sink, n + 1, Len(sink)),
      completion |-> completion \o [i \in 1..n |->
                       [id |-> moved[i], iou |-> Entry(inflight, moved[i]).iou,
                        err |-> Entry(inflight, moved[i]).outcome]]]

\* drain_one: pops the head of the Completion Queue; on an empty queue it
\* fails with EmptyQueue and yields no correlation token (r0 = 0).
MrdGetEvent ==
  IF completion = <<>>
  THEN [ok |-> FALSE, r0 |-> 0, r1 |-> E_EMPTY_QUEUE, id |-> 0, completion |-> completion]
  ELSE [ok |-> TRUE, r0 |-> Head(completion).iou, r1 |-> Head(completion).err,
        id |-> Head(completion).id, completion |-> Tail(completion)]

\* (variant: submit waits for a free slot instead of rejecting)
MrdQueueReady_WaitsForSlot == Len(inflight) + Len(completion) < capacity

\* submit is non-blocking (section 5): it returns at once in every state.
MrdQueueReady == TRUE

\* drain_one is non-blocking (section 5): it never waits for a completion.
MrdGetEventReady == TRUE

\* (variant: cleanup tears the reactor down whatever is in flight)
MrdCleanupAllowed_Always == TRUE

\* cleanup: tears the reactor down (queues released, token revoked) only when
\* no request is in-flight; otherwise it fails and leaves the reactor as it is.
MrdCleanupAllowed == inflight = <<>>

\* ---------------------------------------------------- adapter (C source)
init_capacity_OffByOne(depth) == depth + 1

init_capacity(depth) == depth

init_failed_Unchecked(completions) == FALSE

init_failed(completions) == completions = 0

open_failed_Unchecked(mrd) == FALSE

open_failed(mrd) == mrd = 0

close_engine_data_Kept(mrd) == mrd

close_engine_data(mrd) == 0

queue_rejects_Nothing(ddir) == FALSE

queue_rejects(ddir) == ddir # DDIR_READ

queue_corr_WrongRecord(iou) == 1

queue_corr(iou) == iou

queue_ret(status) == FIO_Q_QUEUED

getevents_args_NoMin(min, max) == <<0, max>>

getevents_args_Swapped(min, max) == <<max, min>>

getevents_args(min, max) == <<min, max>>

event_error_Flag(r1) == IF r1 = 0 THEN 0 ELSE 1

\* go_storage_event: iou->error = r.r1
event_error(r1) == r1

getevents_ret_Zero(n) == 0

getevents_ret(n) == n

InitJob(n) ==
  /\ pc = "start"
  /\ iodepth \in 0..MaxDepth
  /\ number_ios = n
  /\ io_ops_data = 0
  /\ engine_data = 0
  /\ iou_error = [i \in IOUs |-> 0]
  /\ iou_busy = {}
  /\ wait_min = 0
  /\ wait_max = 0
  /\ handles = [t \in Tokens |-> "unused"]
  /\ capacity = 0
  /\ inflight = <<>>
  /\ sink = <<>>
  /\ completion = <<>>
  /\ subs = <<>>
  /\ evts = <<>>
  /\ waited = 0
  /\ counted = {}
  /\ termOrder = <<>>
  /\ termErr = <<>>
  /\ init_res = [called |-> FALSE, alloc |-> FALSE, token |-> 0, ret |-> 0]
  /\ file_res = [op |-> "none", token |-> 0, ret |-> 0, before |-> handles]

Init == InitJob(MaxSubmits)

FairInit == InitJob(MaxFairSubmits)

go_storage_init(allocOk) ==
  /\ pc = "start"
  /\ LET r == MrdInit(handles, init_capacity(iodepth), allocOk)
         completions == r.token
     IN /\ handles' = r.handles
        /\ capacity' = IF completions = 0 THEN capacity ELSE init_capacity(iodepth)
        /\ IF init_failed(completions)
           THEN /\ pc' = "failed"
                /\ io_ops_data' = io_ops_data
                /\ init_res' = [called |-> TRUE, alloc |-> allocOk, token |-> completions, ret |-> 1]
           ELSE /\ pc' = "ready"
                /\ io_ops_data' = completions
                /\ init_res' = [called |-> TRUE, alloc |-> allocOk, token |-> completions, ret |-> 0]
  /\ UNCHANGED <<iodepth, number_ios, engine_data, iou_error, iou_busy, wait_min, wait_max,
                 inflight, sink, completion, subs, evts, waited, counted, termOrder, termErr,
                 file_res>>

go_storage_cleanup ==
  /\ pc = "ready"
  /\ pc' = "done"
  /\ IF MrdCleanupAllowed
     THEN /\ handles' = Revoke(handles, io_ops_data)
          /\ completion' = <<>>
     ELSE UNCHANGED <<handles, completion>>
  /\ UNCHANGED <<hostVars, wait_min, wait_max, capacity, inflight, sink, histVars>>

go_storage_open_file(pathOk) ==
  /\ pc = "ready"
  /\ engine_data = 0
  /\ LET r == MrdOpen(handles, io_ops_data, pathOk)
         mrd == r.token
     IN /\ handles' = r.handles
        /\ IF open_failed(mrd)
           THEN /\ engine_data' = engine_data
                /\ file_res' = [op |-> "open", token |-> mrd, ret |-> 1, before |-> handles]
           ELSE /\ engine_data' = mrd
                /\ file_res' = [op |-> "open", token |-> mrd, ret |-> 0, before |-> handles]
  /\ UNCHANGED <<pc, iodepth, number_ios, io_ops_data, iou_error, iou_busy, wait_min, wait_max,
                 capacity, inflight, sink, completion, subs, evts, waited, counted,
                 termOrder, termErr, init_res>>

\* The host closes a file only once none of its records refers to it.
go_storage_close_file(releaseOk) ==
  /\ pc = "ready"
  /\ engine_data # 0
  /\ iou_busy = {}
  /\ LET r == MrdClose(handles, engine_data, releaseOk)
     IN /\ handles' = r.handles
        /\ file_res' = [op |-> "close", token |-> engine_data, ret |-> r.status,
                        before |-> handles]
  /\ engine_data' = close_engine_data(engine_data)
  /\ UNCHANGED <<pc, iodepth, number_ios, io_ops_data, iou_error, iou_busy, wait_min, wait_max,
                 capacity, inflight, sink, completion, subs, evts, waited, counted,
                 termOrder, termErr, init_res>>

\* The host hands out its lowest free record (the records are interchangeable).
FreeIOU(iou) == iou \notin iou_busy /\ \A j \in IOUs : j < iou => j \in iou_busy

go_storage_queue(iou, ddir) ==
  /\ pc = "ready"
  /\ engine_data # 0
  /\ Len(subs) < number_ios
  /\ FreeIOU(iou)
  /\ IF queue_rejects(ddir)
     THEN /\ iou_error' = [iou_error EXCEPT ![iou] = EINVAL]
          /\ subs' = Append(subs, [iou |-> iou, ddir |-> ddir, called |-> FALSE,
                                   status |-> EINVAL, ret |-> FIO_Q_COMPLETED])
          /\ UNCHANGED <<iou_busy, inflight>>
     ELSE LET r == MrdQueue(io_ops_data, engine_data, queue_corr(iou), Offset(iou))
              ret == queue_ret(r.status)
          IN /\ MrdQueueReady
             /\ iou_error' = [iou_error EXCEPT ![iou] = r.status]
             /\ inflight' = r.inflight
             /\ subs' = Append(subs, [iou |-> iou, ddir |-> ddir, called |-> TRUE,
                                      status |-> r.status, ret |-> ret])
             /\ iou_busy' = IF ret = FIO_Q_QUEUED THEN iou_busy \cup {iou} ELSE iou_busy
  /\ UNCHANGED <<pc, iodepth, number_ios, io_ops_data, engine_data, wait_min, wait_max, handles,
                 capacity, sink, completion, evts, waited, counted, termOrder, termErr,
                 init_res, file_res>>

\* The call of getevents: the thread blocks in MrdAwaitCompletions.
go_storage_getevents(min, max) ==
  /\ pc = "ready"
  /\ pc' = "wait"
  /\ wait_min' = min
  /\ wait_max' = max
  /\ UNCHANGED <<hostVars, coreVars, histVars>>

\* The return of getevents (the timeout t is ignored).
go_storage_getevents_return ==
  /\ pc = "wait"
  /\ LET a == getevents_args(wait_min, wait_max) IN
       /\ AwaitReady(a[1])
       /\ LET r == MrdAwaitCompletions(a[1], a[2])
              n == getevents_ret(r.count)
          IN /\ inflight' = r.inflight
             /\ sink' = r.sink
             /\ completion' = r.completion
             /\ counted' = counted \cup r.ids
             /\ waited' = waited + n
  /\ pc' = "ready"
  /\ wait_min' = 0
  /\ wait_max' = 0
  /\ UNCHANGED <<hostVars, handles, capacity, subs, evts, termOrder, termErr, init_res, file_res>>

go_storage_event ==
  /\ pc = "ready"
  /\ MrdGetEventReady
  /\ LET r == MrdGetEvent IN
       IF r.r0 \in IOUs
       THEN /\ iou_error' = [iou_error EXCEPT ![r.r0] = event_error(r.r1)]
            /\ completion' = r.completion
            /\ iou_busy' = iou_busy \ {r.r0}
            /\ evts' = Append(evts, [id |-> r.id, iou |-> r.r0, err |-> r.r1])
            /\ pc' = pc
       ELSE \* iou is NULL: the store to iou->error is undefined behaviour.
            \* Either the store faults and the thread takes no further step,
            \* or it has no effect and NULL goes back to the host.
            /\ pc' \in {"crashed", pc}
            /\ completion' = r.completion
            /\ UNCHANGED <<iou_error, iou_busy, evts>>
  /\ UNCHANGED <<iodepth, number_ios, io_ops_data, engine_data, wait_min, wait_max, handles, capacity,
                 inflight, sink, subs, waited, counted, termOrder, termErr, init_res, file_res>>

\* The backend posts the terminal outcome of one pending request.
BackendComplete(id, err) ==
  /\ \E i \in 1..Len(inflight) :
       /\ inflight[i].id = id
       /\ inflight[i].outcome = PENDING
       /\ inflight' = [inflight EXCEPT ![i].outcome = err]
  /\ sink' = Append(sink, id)
  /\ termOrder' = Append(termOrder, id)
  /\ termErr' = Append(termErr, err)
  /\ UNCHANGED <<pc, hostVars, wait_min, wait_max, handles, capacity, completion, subs,
                 evts, waited, counted, init_res, file_res>>

Next ==
  \/ \E allocOk \in BOOLEAN : go_storage_init(allocOk)
  \/ go_storage_cleanup
  \/ \E pathOk \in BOOLEAN : go_storage_open_file(pathOk)
  \/ \E releaseOk \in BOOLEAN : go_storage_close_file(releaseOk)
  \/ \E iou \in IOUs, ddir \in Directions : go_storage_queue(iou, ddir)
  \/ \E max \in 1..iodepth : \E min \in 0..max : go_storage_getevents(min, max)
  \/ go_storage_getevents_return
  \/ go_storage_event
  \/ \E id \in 1..MaxSubmits, err \in Outcomes : BackendComplete(id, err)

Spec == Init /\ [][Next]_vars

\* The backend finishes every pending request, and a thread blocked in
\* getevents runs as soon as its condition holds.
FairSpec ==
  /\ FairInit /\ [][Next]_vars
  /\ \A id \in 1..MaxSubmits : WF_vars(\E err \in Outcomes : BackendComplete(id, err))
  /\ WF_vars(go_storage_getevents_return)

\* ------------------------------------------------------------- claims
Elems(q) == {q[i] : i \in 1..Len(q)}

InitOk == init_res.called /\ init_res.ret = 0

ReactorInUse == pc \in {"ready", "wait"}

C2_NeverSilentlyDropped ==
  ReactorInUse =>
    \A s \in 1..Len(subs) :
      subs[s].ret = FIO_Q_QUEUED => s \in Ids(inflight) \cup Ids(completion) \cup Ids(evts)

\* C3: for a read, submit status 0 means accepted into the in-flight queue and
\* a non-zero status is a rejection the host sees at once: such a request is
\* never in-flight, never counted by wait, and not reported as queued.
C3_StatusMirrored ==
  \A s \in 1..Len(subs) :
    subs[s].called =>
      /\ subs[s].status = 0 => s \in Ids(inflight) \cup counted
      /\ subs[s].status # 0 =>
           /\ s \notin Ids(inflight)
           /\ s \notin counted
           /\ subs[s].ret # FIO_Q_QUEUED

\* (C4, in every state) a non-read submission was completed with EINVAL,
\* reached no queue and no count.
C4_NonReadState ==
  \A s \in 1..Len(subs) :
    subs[s].ddir # DDIR_READ =>
      /\ subs[s].ret = FIO_Q_COMPLETED
      /\ subs[s].status = EINVAL /\ subs[s].status # 0
      /\ ~subs[s].called
      /\ s \notin Ids(inflight) \cup Ids(completion) \cup Ids(evts) \cup counted \cup Elems(termOrder)

\* (C4, the step itself) the reactor is untouched, the record carries EINVAL.
C4_NonReadStep ==
  (Len(subs') = Len(subs) + 1 /\ subs'[Len(subs')].ddir # DDIR_READ) =>
    /\ UNCHANGED <<coreVars, waited, counted, iou_busy>>
    /\ iou_error'[subs'[Len(subs')].iou] = EINVAL

\* C4: a non-read submission returns at once as completed with the non-zero
\* invalid-argument error on the record, without calling the backend submit,
\* leaves the reactor's queues unchanged and is never counted by a wait.
C4_NonReadRejected == []C4_NonReadState /\ [][C4_NonReadStep]_vars

C4_Witness ==
  /\ \E s \in 1..Len(subs) : subs[s].ddir # DDIR_READ /\ s > 1
  /\ Len(inflight) >= 1
  /\ waited >= 1

\* (C5) what a step returning from getevents must satisfy.
C5_WaitReturn ==
  (pc = "wait" /\ pc' # "wait") =>
    LET n == waited' - waited
        m == Len(completion')
    IN /\ wait_min <= n /\ n <= wait_max
       /\ Len(sink) >= wait_min
       /\ m >= n
       /\ \A i \in (m - n + 1)..m :
            /\ completion'[i].err # PENDING
            /\ completion'[i].id \in Elems(termOrder)

\* C5: a return of wait(min, max) reports n with min <= n <= max, the n
\* terminal requests are then in the Completion Queue, and it does not return
\* while fewer than min requests are terminal.
C5_WaitBounds == [][C5_WaitReturn]_vars

C5_Witness ==
  /\ pc = "ready" /\ waited = 1 /\ evts = <<>>
  /\ Len(completion) = 1 /\ Len(sink) = 1

\* C6: successful drains never outnumber the sum of the counts returned by
\* wait, and every drained request was counted by an earlier wait.
C6_NoPhantom ==
  /\ Len(evts) <= waited
  /\ \A k \in 1..Len(evts) : evts[k].id \in counted

C6_Witness == Len(evts) = 2 /\ waited = 2

\* C7: an admitted request is drained at most once, the token drained is the
\* token submitted, and once the counted requests are drained each of them
\* has been returned exactly once.
C7_DrainedOnce ==
  /\ \A j, k \in 1..Len(evts) : j # k => evts[j].id # evts[k].id
  /\ \A k \in 1..Len(evts) :
       /\ evts[k].id \in 1..Len(subs)
       /\ subs[evts[k].id].status = 0
       /\ evts[k].iou = subs[evts[k].id].iou
  /\ (pc # "done" /\ completion = <<>>) => counted = Ids(evts)

C7_Witness ==
  /\ iodepth = 2 /\ waited = 2 /\ counted = {1, 2}
  /\ Len(evts) = 2 /\ evts[1].iou # evts[2].iou
  /\ completion = <<>>

\* C8: requests are drained in the order in which the backend marked them
\* terminal (not submission order): if A became terminal before B and B has
\* been drained, A was drained before it.
C8_TerminalOrder ==
  \A a, b \in 1..Len(termOrder) :
    (a < b /\ termOrder[b] \in Ids(evts)) =>
      \E j, k \in 1..Len(evts) :
        j < k /\ evts[j].id = termOrder[a] /\ evts[k].id = termOrder[b]

C8_Witness == Len(evts) >= 2 /\ evts[1].id > evts[2].id

\* C9 (as stated): with a fair backend, a wait(min, max) made while at least
\* min requests are admitted and not yet drained eventually returns, and
\* every admitted request eventually reaches a terminal outcome.
C9_WaitReturnsIfUndrained ==
  /\ (pc = "wait" /\ Len(inflight) + Len(completion) >= wait_min) ~> (pc # "wait")
  /\ \A id \in 1..MaxSubmits : (id \in Ids(inflight)) ~> (id \in Elems(termOrder))

\* C9 (amended): with a fair backend, a wait(min, max) made while at least
\* min requests are in the in-flight queue (admitted and not yet counted by
\* a wait) eventually returns, and every admitted request eventually reaches
\* a terminal outcome.
C9_WaitReturnsIfInflight ==
  /\ (pc = "wait" /\ Len(inflight) >= wait_min) ~> (pc # "wait")
  /\ \A id \in 1..MaxSubmits : (id \in Ids(inflight)) ~> (id \in Elems(termOrder))

C9_Witness ==
  /\ pc = "ready" /\ waited = 2 /\ iodepth = 2
  /\ Len(completion) = 2 /\ inflight = <<>>

\* C10: init with capacity zero or a failed allocation yields reactor token 0;
\* go_storage_init then returns non-zero and stores no token, and after every
\* successful init the stored token is non-zero.
C10_InitFailure ==
  init_res.called =>
    /\ (iodepth = 0 \/ ~init_res.alloc) => init_res.token = 0
    /\ init_res.token = 0 => (init_res.ret # 0 /\ io_ops_data = 0 /\ pc = "failed")
    /\ init_res.ret = 0 => (io_ops_data # 0 /\ io_ops_data = init_res.token)

C10_Witness == init_res.called /\ iodepth = 0 /\ init_res.alloc /\ pc = "failed"

\* A step of go_storage_open_file (no other callback leaves all of these alone
\* while the latest file call is an open).
OpenStep ==
  /\ file_res'.op = "open"
  /\ UNCHANGED <<pc, subs, evts, termOrder>>
  /\ <<handles, engine_data, file_res>>' # <<handles, engine_data, file_res>>

\* (C11, the failing step) the Handle Table and the file are left as they were.
C11_FailedOpenStep ==
  (OpenStep /\ file_res'.token = 0) =>
    /\ handles' = handles
    /\ engine_data' = engine_data /\ engine_data' = 0
    /\ file_res'.ret # 0

\* (C11, afterwards) the file holds no handle and no session exists that did
\* not exist before the call.
C11_FailedOpenState ==
  (file_res.op = "open" /\ file_res.token = 0) =>
    /\ file_res.ret # 0
    /\ engine_data = 0
    /\ \A t \in Tokens : handles[t] = "session" => file_res.before[t] = "session"

\* C11: an open that fails at the backend returns 0 and registers no token:
\* the Handle Table is unchanged, go_storage_open_file reports failure without
\* storing a session handle on the file, and no token resolves to a session
\* for that open afterwards.
C11_FailedOpen == []C11_FailedOpenState /\ [][C11_FailedOpenStep]_vars

C11_Witness ==
  /\ file_res.op = "open" /\ file_res.token = 0 /\ file_res.ret = 1
  /\ \E t \in Tokens : handles[t] = "unused"
  /\ \E t \in Tokens : handles[t] = "revoked"

\* (C12, after the close) the file holds no handle and the closed token does
\* not resolve.
C12_ClosedState ==
  file_res.op = "close" =>
    /\ engine_data = 0
    /\ ~Resolve(handles, file_res.token, "session")
    /\ ~Resolve(handles, file_res.token, "reactor")

\* (C12, ever after) a revoked token stays revoked.
C12_RevokedStays ==
  \A t \in Tokens : handles[t] = "revoked" => handles'[t] = "revoked"

\* C12: after close(session_token) returns, whatever its status, the token is
\* invalid: every later resolution fails, and the host-side file no longer
\* holds the session handle.
C12_ClosedTokenInvalid == []C12_ClosedState /\ [][C12_RevokedStays]_vars

C12_Witness ==
  /\ file_res.op = "open" /\ file_res.ret = 0 /\ engine_data = 3
  /\ handles[2] = "revoked"
  /\ Len(subs) >= 1

\* A step of go_storage_event taken on an empty Completion Queue.
EmptyEventStep ==
  /\ pc = "ready" /\ completion = <<>>
  /\ pc' \in {"ready", "crashed"}
  /\ UNCHANGED <<subs, termOrder, file_res>>

\* C13: drain_one on an empty Completion Queue fails with EmptyQueue (the
\* caller gets the failure and goes on), leaves the reactor's state unchanged
\* and returns no correlation token.
C13_EmptyDrainFails ==
  [][EmptyEventStep => (pc' = "ready" /\ UNCHANGED <<coreVars, evts, iou_error, iou_busy>>)]_vars

\* The reactor's queues are released and its token revoked.
TornDown == io_ops_data # 0 /\ handles[io_ops_data] = "revoked"

\* C14: a reactor is never torn down while requests are in-flight: cleanup
\* releases the queues and revokes the token only when no admitted request is
\* still pending; otherwise it fails and the reactor stays.
C14_NoTeardownInFlight ==
  /\ TornDown => \A i \in 1..Len(inflight) : inflight[i].outcome # PENDING
  /\ TornDown => inflight = <<>> /\ completion = <<>>
  /\ (pc = "done" /\ inflight # <<>>) => Resolve(handles, io_ops_data, "reactor")

C14_Witness ==
  /\ pc = "done"
  /\ \E i \in 1..Len(inflight) : inflight[i].outcome = PENDING
  /\ Resolve(handles, io_ops_data, "reactor")

\* The state of the request made by the s-th submission, read off the queues.
ReqState(s) ==
  IF s > Len(subs) THEN "none"
  ELSE IF s \in Ids(evts) THEN "drained"
  ELSE IF s \in Ids(completion) THEN "terminal"
  ELSE IF s \in Ids(inflight)
       THEN (IF Entry(inflight, s).outcome = PENDING THEN "pending" ELSE "terminal")
  ELSE IF subs[s].status # 0 THEN "rejected"
  ELSE IF s \in Elems(termOrder) THEN "terminal"
  ELSE "lost"

ReqStateP(s) ==
  IF s > Len(subs') THEN "none"
  ELSE IF s \in Ids(evts') THEN "drained"
  ELSE IF s \in Ids(completion') THEN "terminal"
  ELSE IF s \in Ids(inflight')
       THEN (IF Entry(inflight', s).outcome = PENDING THEN "pending" ELSE "terminal")
  ELSE IF subs'[s].status # 0 THEN "rejected"
  ELSE IF s \in Elems(termOrder') THEN "terminal"
  ELSE "lost"

\* Submission with validation and admission is one step of submit, so a
\* request is first seen either Pending or rejected.
ReqMoves ==
  {<<"none", "pending">>, <<"none", "rejected">>,
   <<"pending", "terminal">>, <<"terminal", "drained">>}

C15_ReqStates ==
  \A s \in 1..Len(subs) :
    /\ ReqState(s) \in {"pending", "terminal", "drained", "rejected"}
    /\ ReqState(s) # "rejected" => subs[s].ddir = DDIR_READ /\ subs[s].status = 0
    /\ ReqState(s) = "drained" => s \in Elems(termOrder)

C15_ReqSteps ==
  \A s \in 1..MaxSubmits + 1 :
    ReqStateP(s) # ReqState(s) => <<ReqState(s), ReqStateP(s)>> \in ReqMoves

\* C15: a request moves only Submitted -> validated or rejected, validated ->
\* Pending, Pending -> Terminal, Terminal -> Drained; Drained and rejected are
\* absorbing, and no request is drained without having been Terminal.
C15_RequestStateMachine == []C15_ReqStates /\ [][C15_ReqSteps]_vars

C15_Witness ==
  /\ Len(subs) >= 3
  /\ ReqState(1) = "drained"
  /\ ReqState(2) = "rejected"
  /\ ReqState(3) = "pending"

\* The host is in a position to submit: job running, file open, a free record.
CanSubmit ==
  pc = "ready" /\ engine_data # 0 /\ Len(subs) < number_ios /\ iou_busy # IOUs

NoDup(q) == \A i, j \in 1..Len(q) : q[i] = q[j] => i = j

Admitted == {s \in 1..Len(subs) : subs[s].called /\ subs[s].status = 0}

\* The requests handed to the Completion Queue so far, drained ones included.
Posted == [i \in 1..Len(evts) |-> evts[i].id] \o [i \in 1..Len(completion) |-> completion[i].id]

\* C17: with the backend posting outcomes between any two steps of the owning
\* thread, each admitted request's completion reaches the Completion Queue at
\* most once and only after its outcome was posted, every posted outcome is
\* either still waiting for a wait or has been counted, and the counts the
\* waits returned add up to the number of distinct requests counted.
C17_ExactlyOnce ==
  /\ NoDup(termOrder) /\ NoDup(sink) /\ NoDup(Posted)
  /\ Elems(termOrder) \subseteq Admitted
  /\ Ids(inflight) \cap Elems(Posted) = {}
  /\ Elems(sink) \subseteq Ids(inflight)
  /\ Elems(sink) \cap counted = {}
  /\ Elems(termOrder) = Elems(sink) \cup counted
  /\ Elems(Posted) \subseteq counted
  /\ ~TornDown => Elems(Posted) = counted
  /\ waited = Cardinality(counted)

C17_Witness ==
  /\ waited = 2
  /\ Len(evts) = 1 /\ Len(completion) = 1 /\ Len(sink) = 1
  /\ pc = "wait"

Live(t) == t \in Tokens /\ handles[t] \in {"reactor", "session"}

\* What resolving token t yields when it is presented to each operation that
\* takes a token.
ResolveFails(t) ==
  /\ ~Resolve(handles, t, "reactor") /\ ~Resolve(handles, t, "session")
  /\ MrdOpen(handles, t, TRUE).token = 0
  /\ MrdClose(handles, t, TRUE).status = E_INVALID_HANDLE
  /\ MrdQueue(t, engine_data, 1, 0).status = E_INVALID_HANDLE
  /\ MrdQueue(io_ops_data, t, 1, 0).status = E_INVALID_HANDLE

C18_TokenState ==
  /\ init_res.called => init_res.token \in Tokens \cup {0}
  /\ file_res.op = "open" => file_res.token \in Tokens \cup {0}
  /\ 0 \notin Tokens
  /\ InitOk => io_ops_data \in Tokens /\ handles[io_ops_data] \in {"reactor", "revoked"}
  /\ engine_data # 0 => Resolve(handles, engine_data, "session") /\ engine_data # io_ops_data
  /\ \A t \in Tokens : handles[t] = "reactor" => t = io_ops_data
  /\ \A t \in Tokens : handles[t] = "session" => t = engine_data
  /\ \A t \in Tokens \cup {0} : ~Live(t) => ResolveFails(t)

C18_TokenStep ==
  \A t \in Tokens :
    /\ Live(t) => handles'[t] \in {handles[t], "revoked"}
    /\ (handles[t] = "unused" /\ handles'[t] # "unused") =>
          /\ handles'[t] \in {"reactor", "session"}
          /\ \A u \in Tokens \ {t} : handles'[u] = handles[u]

\* C18: every token issued is non-zero, two live objects never share a token,
\* a bound token is not issued again before its binding is revoked, and
\* resolving a revoked or never-issued token fails with InvalidHandle.
C18_Tokens == []C18_TokenState /\ [][C18_TokenStep]_vars

C18_Witness ==
  /\ pc = "ready"
  /\ Resolve(handles, 1, "reactor")
  /\ handles[2] = "revoked"
  /\ Resolve(handles, 3, "session")
  /\ io_ops_data = 1 /\ engine_data = 3

\* The terminal outcome the backend posted for request s.
OutcomeOf(s) == termErr[CHOOSE i \in 1..Len(termOrder) : termOrder[i] = s]

C19_RecordState ==
  /\ Len(termErr) = Len(termOrder)
  /\ \A k \in 1..Len(evts) :
       /\ evts[k].id \in Admitted
       /\ subs[evts[k].id].ddir = DDIR_READ
       /\ evts[k].iou = subs[evts[k].id].iou
       /\ evts[k].id \in Elems(termOrder)
  /\ \A s \in Admitted :
       s \in Ids(inflight) \cup Ids(completion) =>
         /\ subs[s].iou \in iou_busy
         /\ iou_error[subs[s].iou] = subs[s].status

C19_EventStep ==
  Len(evts') = Len(evts) + 1 =>
    LET e == evts'[Len(evts')]
        iou == subs[e.id].iou
    IN /\ e.iou = iou
       /\ iou_error[iou] = subs[e.id].status
       /\ iou_error'[iou] = OutcomeOf(e.id)
       /\ \A j \in IOUs \ {iou} : iou_error'[j] = iou_error[j]

\* C19: for every accepted read the record returned by the event call is the
\* record passed at submission; its error field holds the submission status
\* until the request is drained, and after the event call it holds the
\* outcome the backend posted for that request.
C19_OutcomeOnRecord == []C19_RecordState /\ [][C19_EventStep]_vars

C19_Witness ==
  /\ \E k \in 1..Len(evts) :
       evts[k].iou \notin iou_busy /\ iou_error[evts[k].iou] = E_BACKEND_IO
  /\ \E i \in 1..Len(completion) :
       completion[i].err = E_BACKEND_IO /\ iou_error[completion[i].iou] = 0

====
